---- MODULE Spec2Model ----
(***************************************************************************)
(* A model of schedule.py: the work-schedule generator of tab 1            *)
(* (generate_work_schedule, append_stay_totals, the calendar matrix), the  *)
(* date helpers next_workday and workdays_only, and the weekly planner of  *)
(* tab 2.                                                                  *)
(*                                                                         *)
(* Dates are day numbers: day 0 is Monday 2024-01-01, so that Python's     *)
(* date.weekday() (0 = Monday .. 6 = Sunday) is the day number modulo 7.   *)
(* A missing cell of a table (pandas NaN) is the empty sequence, a present *)
(* number v is <<v>>; a missing text cell is the string "nan".             *)
(***************************************************************************)
EXTENDS Integers, Sequences, FiniteSets, TLC

VARIABLES
    columns,          \* column labels of the uploaded table (input_df.columns)
    data,             \* rows of the uploaded table, in file order (input_df)
    start_date,       \* start_date_input, a day number
    status_durations, \* the sidebar's status -> duration mapping
    priority_order,   \* [Constituency |-> list, Status |-> list]
    pc,               \* position of the script
    run,              \* which run of generate_work_schedule this is (1 or 2)
    sorted_data,      \* generate_work_schedule's local, sorted copy of data
    idx,              \* number of rows of sorted_data already iterated
    team_tracker,     \* generate_work_schedule's local dict team -> last end
    schedule_rows,    \* generate_work_schedule's local list of emitted rows
    output_df,        \* the DataFrame generate_work_schedule returned
    prev_output,      \* what the previous run returned (kept for comparison)
    full_df,          \* append_stay_totals' result, dates formatted
    sheet,            \* the rows load_data_sheet returned to append_stay_totals
    calendar_matrix,  \* the tab-1 calendar matrix
    call,             \* the last direct call of a date helper and its result
    selected_schemes, \* tab 2: the schemes chosen in the multiselect, in order
    widget_values,    \* tab 2: tasks, team and start date read for each scheme so far
    assigned_tasks,   \* tab 2: the list of task rows built so far
    merged_df,        \* tab 2: task rows with Constituency and Shutdown Date
    calendar          \* tab 2: the weekly calendar matrix

vars == <<columns, data, start_date, status_durations, priority_order, pc, run,
          sorted_data, idx, team_tracker, schedule_rows, output_df,
          prev_output, full_df, sheet, calendar_matrix, call,
         selected_schemes, widget_values, assigned_tasks, merged_df, calendar>>

-----------------------------------------------------------------------------
(* Values of table cells                                                   *)

NaN == <<>>

Some(v) == <<v>>

NaNText == "nan"

Absent == "<no column>"

Sunday == 6

DefaultDuration == 2

-----------------------------------------------------------------------------
(* Bounds of the model                                                     *)

MaxItems == 2

MaxCallDays == 6

MaxCallDate == 13

Teams == {"Team -1", "Team -2"}

Constituencies == {"CatX", "CatY"}

Schemes == {"Scheme1", "Scheme2"}

\* Every text the model sorts by, in Python's str order ("<" sorts before
\* the letters).
Lexicon ==
    << "<no column>", "CatX", "CatY", "Complete", "Not Done", "On Hold",
       "Scheme1", "Scheme2", "Team -1", "Team -2" >>

\* Monday 2024-01-01, Saturday 2024-01-06 and Sunday 2024-01-07.
StartDates == {0, 5, 6}

\* (Status, Duration (Days)) cells of an uploaded row: a mapped status with
\* and without an explicit duration, an unmapped one with a duration, with
\* a duration of zero, with a negative one and with none, and a missing
\* status.
StatusDurationCells ==
    { <<"Not Done", NaN>>, <<"Complete", Some(3)>>, <<"On Hold", Some(0)>>,
      <<"On Hold", Some(-1)>>, <<"On Hold", NaN>>, <<NaNText, Some(3)>> }

\* Cells whose statuses take every rank of the priority lists below.
OrderingCells == { <<"Not Done", NaN>>, <<"Complete", Some(3)>>, <<"On Hold", NaN>> }

AllColumns == {"Team", "Constituency", "Scheme Name", "Status", "Duration (Days)"}

ColumnSets ==
    { AllColumns, AllColumns \ {"Duration (Days)"}, AllColumns \ {"Status"} }

\* The columns every upload is expected to have.
RequiredColumns == {"Team", "Constituency", "Scheme Name"}

StatusDurationConfigs ==
    { [s \in {"Not Done", "Pending", "In Progress", "Complete"} |->
          CASE s = "Not Done" -> 7 [] s = "Pending" -> 5
            [] s = "In Progress" -> 3 [] OTHER -> 1] }

ConstituencyPriorities == { <<"CatX", "CatY">>, <<"CatY", "CatX">>, <<"CatY">> }

StatusPriorities == { <<"Complete", "Not Done", "On Hold">>, <<"Not Done", "Complete">> }

-----------------------------------------------------------------------------
(* Dates                                                                   *)

weekday(d) == d % 7

\* next_workday(start_date, days): the while loop of lines 45-48.
RECURSIVE NextWorkdayLoop(_, _, _)
NextWorkdayLoop(current, added_days, days) ==
    IF added_days < days
    THEN LET c == current + 1
         IN  NextWorkdayLoop(c, IF weekday(c) # Sunday THEN added_days + 1
                                                       ELSE added_days, days)
    ELSE current

\* A next_workday that counts calendar days, Sundays included.
next_workday_CountsSundays(d, days) == IF days > 0 THEN d + days ELSE d

next_workday(d, days) == NextWorkdayLoop(d, 0, days)

\* workdays_only(start, end): the while loop of lines 56-59.
RECURSIVE WorkdaysLoop(_, _, _)
WorkdaysLoop(current, end, dates) ==
    IF current <= end
    THEN WorkdaysLoop(current + 1, end,
                      IF weekday(current) # Sunday THEN Append(dates, current)
                                                   ELSE dates)
    ELSE dates

workdays_only(start, end) == WorkdaysLoop(start, end, <<>>)

\* The end of a booking: the while loop of lines 93-98.
RECURSIVE EndLoop(_, _, _)
EndLoop(end, days_added, duration) ==
    IF days_added < duration
    THEN LET e == end + 1
         IN  EndLoop(e, IF weekday(e) # Sunday THEN days_added + 1
                                               ELSE days_added, duration)
    ELSE end

\* A booking whose end is start + duration - 1, before the start for a
\* duration of zero or less.
BookingEnd_AddsDuration(start, duration) == start + duration - 1

\* A booking that counts calendar days, Sundays included.
BookingEnd_CountsSundays(start, duration) ==
    IF duration > 1 THEN start + duration - 1 ELSE start

BookingEnd(start, duration) == EndLoop(start, 1, duration)

-----------------------------------------------------------------------------
(* generate_work_schedule                                                  *)

StrRank(s) == CHOOSE i \in 1..Len(Lexicon) : Lexicon[i] = s

\* list.index(x) if x in list else len(list)
RankIn(list, x) ==
    IF \E i \in 1..Len(list) : list[i] = x
    THEN (CHOOSE i \in 1..Len(list) :
              list[i] = x /\ \A j \in 1..(i - 1) : list[j] # x) - 1
    ELSE Len(list)

\* A key that ranks the status before the constituency.
get_priority_StatusFirst(row) ==
    << StrRank(row.Team),
       RankIn(priority_order.Status, row.Status),
       RankIn(priority_order.Constituency, row.Constituency),
       StrRank(row.Scheme) >>

\* get_priority(row): (str(Team), constituency_rank, status_rank, str(Scheme Name))
get_priority(row) ==
    << StrRank(row.Team),
       RankIn(priority_order.Constituency, row.Constituency),
       RankIn(priority_order.Status, row.Status),
       StrRank(row.Scheme) >>

\* Python's tuple comparison a <= b on the 4-tuples of get_priority.
TupleLeq(a, b) ==
    \/ a[1] < b[1]
    \/ a[1] = b[1] /\ a[2] < b[2]
    \/ a[1] = b[1] /\ a[2] = b[2] /\ a[3] < b[3]
    \/ a[1] = b[1] /\ a[2] = b[2] /\ a[3] = b[3] /\ a[4] <= b[4]

\* One insertion of the sort: row goes after every row whose key is <= its own.
RECURSIVE InsertSorted(_, _)
InsertSorted(rows, row) ==
    IF rows = <<>> THEN <<row>>
    ELSE IF TupleLeq(get_priority(rows[Len(rows)]), get_priority(row))
         THEN Append(rows, row)
         ELSE Append(InsertSorted(SubSeq(rows, 1, Len(rows) - 1), row),
                     rows[Len(rows)])

\* data.sort_values(by="_priority"): for the short tables here numpy's
\* quicksort is an insertion sort, which keeps equal keys in file order.
RECURSIVE sort_values(_)
sort_values(rows) ==
    IF rows = <<>> THEN <<>>
    ELSE InsertSorted(sort_values(SubSeq(rows, 1, Len(rows) - 1)), rows[Len(rows)])

\* A key that reads the ranked columns only.
PriorityColumns_RankedOnly == {"Constituency", "Status"}

\* The columns get_priority reads of every row (lines 71-73).
PriorityColumns == {"Team", "Constituency", "Status", "Scheme Name"}

\* The caller's table with the _priority column written into it.
CallerTable_NoCopy == [columns |-> columns \cup {"_priority"}, data |-> data]

\* Lines 75-77: data = data.copy() rebinds the local name, so the _priority
\* column and the sort go to the copy and the caller's table stays as it is.
CallerTable == [columns |-> columns, data |-> data]

\* A duration that prefers the row's explicit field to the status mapping.
DurationOf_ExplicitFirst(row) ==
    IF "Duration (Days)" \in columns /\ row.Duration # NaN
    THEN row.Duration[1]
    ELSE IF "Status" \in columns /\ row.Status \in DOMAIN status_durations
         THEN status_durations[row.Status]
         ELSE DefaultDuration

\* Lines 84-89: the duration of a row.
DurationOf(row) ==
    IF "Status" \in columns /\ row.Status \in DOMAIN status_durations
    THEN status_durations[row.Status]
    ELSE IF "Duration (Days)" \in columns /\ row.Duration # NaN
         THEN row.Duration[1]
         ELSE DefaultDuration

\* Line 91: team_tracker.get(team, start_date - timedelta(days=1))
LastEnd(team) ==
    IF team \in DOMAIN team_tracker THEN team_tracker[team] ELSE start_date - 1

\* A booking that starts on the day after the cursor, whatever day it is.
Booking_StartsNextDay(row) ==
    LET duration == DurationOf(row)
        start    == LastEnd(row.Team) + 1
        end      == BookingEnd(start, duration)
    IN  [ Team |-> row.Team, Constituency |-> row.Constituency,
          Scheme |-> row.Scheme, Duration |-> duration,
          Start |-> start, End |-> end,
          Status |-> IF "Status" \in columns THEN row.Status ELSE "Unknown" ]

\* Lines 92-108: the row booked for `row`.
Booking(row) ==
    LET duration == DurationOf(row)
        start    == next_workday(LastEnd(row.Team), 1)
        end      == BookingEnd(start, duration)
    IN  [ Team |-> row.Team, Constituency |-> row.Constituency,
          Scheme |-> row.Scheme, Duration |-> duration,
          Start |-> start, End |-> end,
          Status |-> IF "Status" \in columns THEN row.Status ELSE "Unknown" ]

\* A cursor that keeps the booking's start instead of its end.
TrackerAfter_KeepsStart(row, booked) ==
    [t \in DOMAIN team_tracker \cup {row.Team} |->
        IF t = row.Team THEN booked.Start ELSE team_tracker[t]]

\* Line 110: team_tracker[team] = end
TrackerAfter(row, booked) ==
    [t \in DOMAIN team_tracker \cup {row.Team} |->
        IF t = row.Team THEN booked.End ELSE team_tracker[t]]

\* A cursor that outlives the call that filled it.
FreshTracker_CarriedOver == team_tracker

\* Lines 64-66: the locals a call starts with.
FreshTracker == [t \in {} |-> 0]

-----------------------------------------------------------------------------
(* Initial states: the uploaded table and the sidebar's configuration      *)

Row(team, cons, scheme, cell, cols) ==
    [ Team |-> IF "Team" \in cols THEN team ELSE Absent,
      Constituency |-> IF "Constituency" \in cols THEN cons ELSE Absent,
      Scheme |-> IF "Scheme Name" \in cols THEN scheme ELSE Absent,
      Status |-> IF "Status" \in cols THEN cell[1] ELSE Absent,
      Duration |-> IF "Duration (Days)" \in cols THEN cell[2] ELSE NaN ]

Tables(rows) == UNION { [1..n -> rows] : n \in 1..MaxItems }

NaturalOrder ==
    [Constituency |-> <<"CatX", "CatY">>, Status |-> <<"Complete", "Not Done", "On Hold">>]

NoMatrix == [columns |-> <<>>, index |-> <<>>, cell |-> [k \in {} |-> ""]]

NoCall == [fn |-> "none"]

Idle ==
    /\ run = 1
    /\ sorted_data = <<>>
    /\ idx = 0
    /\ team_tracker = <<>>
    /\ schedule_rows = <<>>
    /\ output_df = <<>>
    /\ prev_output = <<>>
    /\ full_df = <<>>
    /\ sheet = <<>>
    /\ calendar_matrix = NoMatrix
    /\ call = NoCall
    /\ selected_schemes = <<>>
    /\ widget_values = <<>>
    /\ assigned_tasks = <<>>
    /\ merged_df = <<>>
    /\ calendar = NoMatrix

\* Uploads that differ in every field of the sort key, under every pair of
\* priority lists.
InitOrdering ==
    /\ columns = AllColumns
    /\ data \in Tables({ Row(t, c, s, cell, AllColumns) :
                            t \in Teams, c \in Constituencies, s \in Schemes,
                            cell \in OrderingCells })
    /\ start_date = 0
    /\ priority_order \in [Constituency : ConstituencyPriorities, Status : StatusPriorities]

\* Uploads that differ in the source and the length of the duration and in
\* the columns the file has, from every start date.
InitDurations ==
    /\ columns \in ColumnSets
    /\ data \in Tables({ Row(t, "CatX", s, cell, columns) :
                            t \in Teams, s \in Schemes, cell \in StatusDurationCells })
    /\ start_date \in StartDates
    /\ priority_order = NaturalOrder

\* Uploads that lack one of the required columns.
InitMissingColumn ==
    /\ columns \in { AllColumns \ {c} : c \in RequiredColumns }
    /\ data \in Tables({ Row(t, "CatX", s, cell, columns) :
                            t \in Teams, s \in Schemes, cell \in OrderingCells })
    /\ start_date = 0
    /\ priority_order = NaturalOrder

Init ==
    /\ InitOrdering \/ InitDurations \/ InitMissingColumn
    /\ status_durations \in StatusDurationConfigs
    /\ pc = "start"
    /\ Idle

inputs == <<columns, data, start_date, status_durations, priority_order>>

widgets == <<start_date, status_durations, priority_order>>

weekly == <<selected_schemes, widget_values, assigned_tasks, merged_df, calendar>>

-----------------------------------------------------------------------------
(* The steps of generate_work_schedule                                     *)

\* Lines 64-77: the locals, then the priority key of every row and the sort.
\* get_priority raises KeyError on a table that lacks a column it reads.
SortData ==
    /\ pc = "start"
    /\ IF PriorityColumns \subseteq columns
       THEN /\ sorted_data' = sort_values(data)
            /\ pc' = "loop"
       ELSE /\ sorted_data' = <<>>
            /\ pc' = "error"
    /\ idx' = 0
    /\ team_tracker' = FreshTracker
    /\ schedule_rows' = <<>>
    /\ columns' = CallerTable.columns
    /\ data' = CallerTable.data
    /\ UNCHANGED <<weekly, widgets, run, output_df, prev_output, full_df, sheet, calendar_matrix, call>>

\* Lines 79-110: one iteration of the loop over the sorted rows.
BookItem ==
    /\ pc = "loop"
    /\ idx < Len(sorted_data)
    /\ LET row    == sorted_data[idx + 1]
           booked == Booking(row)
       IN  /\ schedule_rows' = Append(schedule_rows, booked)
           /\ team_tracker' = TrackerAfter(row, booked)
    /\ idx' = idx + 1
    /\ UNCHANGED <<weekly, inputs, pc, run, sorted_data, output_df, prev_output, full_df,
                   sheet, calendar_matrix, call>>

\* Line 112: return pd.DataFrame(schedule_rows)
ReturnSchedule ==
    /\ pc = "loop"
    /\ idx = Len(sorted_data)
    /\ output_df' = schedule_rows
    /\ pc' = "scheduled"
    /\ UNCHANGED <<weekly, inputs, run, sorted_data, idx, team_tracker, schedule_rows,
                   prev_output, full_df, sheet, calendar_matrix, call>>

\* Streamlit runs the script again on the same upload and the same widgets:
\* line 163 calls generate_work_schedule a second time.
Rerun ==
    /\ pc = "scheduled"
    /\ run = 1
    /\ run' = 2
    /\ prev_output' = output_df
    /\ pc' = "start"
    /\ UNCHANGED <<weekly, inputs, sorted_data, idx, team_tracker, schedule_rows, output_df,
                   full_df, sheet, calendar_matrix, call>>

-----------------------------------------------------------------------------
(* Direct calls of the date helpers                                        *)

CallNextWorkday ==
    /\ pc = "helpers"
    /\ \E d \in -1..MaxCallDate, n \in 0..MaxCallDays :
          call' = [fn |-> "next_workday", d |-> d, n |-> n, result |-> next_workday(d, n)]
    /\ UNCHANGED <<weekly, inputs, pc, run, sorted_data, idx, team_tracker, schedule_rows,
                   output_df, prev_output, full_df, sheet, calendar_matrix>>

CallWorkdaysOnly ==
    /\ pc = "helpers"
    /\ \E d \in -1..MaxCallDate, e \in -1..MaxCallDate :
          call' = [fn |-> "workdays_only", start |-> d, end |-> e,
                   result |-> workdays_only(d, e)]
    /\ UNCHANGED <<weekly, inputs, pc, run, sorted_data, idx, team_tracker, schedule_rows,
                   output_df, prev_output, full_df, sheet, calendar_matrix>>

InitCal ==
    /\ columns = AllColumns
    /\ data = <<>>
    /\ start_date = 0
    /\ status_durations \in StatusDurationConfigs
    /\ priority_order = [Constituency |-> <<>>, Status |-> <<>>]
    /\ pc = "helpers"
    /\ Idle

NextCal == CallNextWorkday \/ CallWorkdaysOnly

SpecCal == InitCal /\ [][NextCal]_vars

-----------------------------------------------------------------------------
(* append_stay_totals                                                      *)

StayCols ==
    { "NORMAL STAY", "FLYING STAY", "UNDER WP HT NORMAL STAY", "UNDER CP HT NORMAL STAY",
      "UNDER WP HT FLYING STAY", "UNDER CP HT FLYING STAY", "MV NORMAL STAY",
      "MV FLYING STAY" }

Number(v) == [kind |-> "number", value |-> v]

Text(t) == [kind |-> "text", value |-> t]

\* pd.to_numeric(cell, errors="coerce")
to_numeric(cell) == IF cell.kind = "number" THEN Some(cell.value) ELSE NaN

\* The sum of a list of coerced cells, NaN skipped (pandas' sum).
RECURSIVE SumSkipNaN(_)
SumSkipNaN(cells) ==
    IF cells = <<>> THEN 0
    ELSE (IF Head(cells) = NaN THEN 0 ELSE Head(cells)[1]) + SumSkipNaN(Tail(cells))

\* The cells of column c in the sheet rows named `name`, coerced.
ColumnOf(rows, name, c) ==
    LET named == SelectSeq(rows, LAMBDA r : r.SchemeName = name)
    IN  [i \in 1..Len(named) |-> to_numeric(named[i].Stays[c])]

RECURSIVE SumOver(_, _)
SumOver(f, S) ==
    IF S = {} THEN 0
    ELSE LET c == CHOOSE x \in S : TRUE IN f[c] + SumOver(f, S \ {c})

\* The group keys of groupby("SCHEME NAME"), in sorted order.
GroupKeys(rows) ==
    SelectSeq(Lexicon, LAMBDA n : \E i \in 1..Len(rows) : rows[i].SchemeName = n)

\* Totals taken row by row, one per sheet row.
Totals_Ungrouped(rows) ==
    [ i \in 1..Len(rows) |->
        LET cells == [c \in StayCols |-> to_numeric(rows[i].Stays[c])]
            sums  == [c \in StayCols |-> IF cells[c] = NaN THEN 0 ELSE cells[c][1]]
        IN  [SchemeName |-> rows[i].SchemeName,
             Stays |-> [c \in StayCols |-> Some(sums[c])],
             Total |-> Some(SumOver(sums, StayCols))] ]

\* Lines 121-123: one row of totals per SCHEME NAME of the sheet, the stay
\* columns summed over the group and TOTAL STAYS summed over the columns.
Totals(rows) ==
    LET keys == GroupKeys(rows)
    IN  [ k \in 1..Len(keys) |->
            LET sums == [c \in StayCols |-> SumSkipNaN(ColumnOf(rows, keys[k], c))]
            IN  [SchemeName |-> keys[k],
                 Stays |-> [c \in StayCols |-> Some(sums[c])],
                 Total |-> Some(SumOver(sums, StayCols))] ]

\* Line 124: the rows of totals a left row is paired with by the left merge,
\* every row of the same scheme name; one row of NaN without a match.
Joined(totals, scheme) ==
    LET matches == SelectSeq(totals, LAMBDA t : t.SchemeName = scheme)
    IN  IF matches = <<>>
        THEN << [SchemeName |-> scheme, Stays |-> [c \in StayCols |-> NaN], Total |-> NaN] >>
        ELSE matches

\* Line 126: merged[stay_cols] = merged[stay_cols].fillna(0).astype(int);
\* TOTAL STAYS is not among stay_cols.
FillStays(joined) ==
    [ Stays |-> [c \in StayCols |->
                    LET v == joined.Stays[c] IN IF v = NaN THEN 0 ELSE v[1]],
      Total |-> joined.Total ]

\* strftime("%Y-%m-%d") of a day number, as <<year, month, day>>: the text
\* compares as this triple does. Days of December 2023 to March 2024.
strftime(d) ==
    IF d < 0 THEN <<2023, 12, 32 + d>>
    ELSE IF d < 31 THEN <<2024, 1, d + 1>>
    ELSE IF d < 60 THEN <<2024, 2, d - 30>>
    ELSE <<2024, 3, d - 59>>

\* The day number of a formatted date (pd.date_range parses its bounds).
to_datetime(s) ==
    IF s[1] = 2023 THEN s[3] - 32
    ELSE IF s[2] = 1 THEN s[3] - 1
    ELSE IF s[2] = 2 THEN s[3] + 30
    ELSE s[3] + 59

\* Lines 122-127 and 165-166: a schedule row merged with a row of totals.
MergedRow(row, joined) ==
    LET filled == FillStays(joined)
    IN  [ Team |-> row.Team, Constituency |-> row.Constituency, Scheme |-> row.Scheme,
          Duration |-> row.Duration, Status |-> row.Status,
          Start |-> strftime(row.Start), End |-> strftime(row.End),
          Stays |-> filled.Stays, Total |-> filled.Total ]

RECURSIVE Flatten(_)
Flatten(seqs) == IF seqs = <<>> THEN <<>> ELSE Head(seqs) \o Flatten(Tail(seqs))

\* Lines 122-127: the left merge keeps the order of the schedule and emits
\* one row for every pair of a schedule row and a matching row of totals.
append_stay_totals(df, rows) ==
    LET totals == Totals(rows)
    IN  Flatten([ i \in 1..Len(df) |->
                    LET matches == Joined(totals, df[i].Scheme)
                    IN  [j \in 1..Len(matches) |-> MergedRow(df[i], matches[j])] ])

-----------------------------------------------------------------------------
(* The tab-1 calendar matrix                                               *)

\* f"{constituency} - {scheme}"
RowKey(constituency, scheme) == constituency \o " - " \o scheme

\* Comparison of two formatted dates as text.
IsoLeq(a, b) ==
    \/ a[1] < b[1]
    \/ a[1] = b[1] /\ a[2] < b[2]
    \/ a[1] = b[1] /\ a[2] = b[2] /\ a[3] <= b[3]

IsoMin(S) == CHOOSE a \in S : \A b \in S : IsoLeq(a, b)

IsoMax(S) == CHOOSE a \in S : \A b \in S : IsoLeq(b, a)

\* pd.date_range(a, b, freq="D") of two formatted dates, formatted again.
DateColumns(a, b) ==
    LET lo == to_datetime(a)
        hi == to_datetime(b)
    IN  [i \in 1..(hi - lo + 1) |-> strftime(lo + i - 1)]

\* matrix_df.sort_values("Start Date"): equal starts keep their order.
RECURSIVE InsertByStart(_, _)
InsertByStart(rows, row) ==
    IF rows = <<>> THEN <<row>>
    ELSE IF IsoLeq(rows[Len(rows)].Start, row.Start)
         THEN Append(rows, row)
         ELSE Append(InsertByStart(SubSeq(rows, 1, Len(rows) - 1), row), rows[Len(rows)])

RECURSIVE SortByStart(_)
SortByStart(rows) ==
    IF rows = <<>> THEN <<>>
    ELSE InsertByStart(SortByStart(SubSeq(rows, 1, Len(rows) - 1)), rows[Len(rows)])

\* Lines 177-179: a row label per constituency and scheme, in the order of
\* their first appearance; assigning to a label that exists adds no row.
RECURSIVE AddLabels(_, _)
AddLabels(index, keys) ==
    IF keys = <<>> THEN index
    ELSE AddLabels(IF \E i \in 1..Len(index) : index[i] = Head(keys)
                   THEN index ELSE Append(index, Head(keys)),
                   Tail(keys))

RECURSIVE Unique(_)
Unique(seq) ==
    IF seq = <<>> THEN <<>>
    ELSE LET before == Unique(SubSeq(seq, 1, Len(seq) - 1))
             x      == seq[Len(seq)]
         IN  IF \E i \in 1..Len(before) : before[i] = x THEN before ELSE Append(before, x)

MatrixLabels(rows) ==
    LET constituencies == Unique([i \in 1..Len(rows) |-> rows[i].Constituency])
        schemesOf(c) ==
            LET of == SelectSeq(rows, LAMBDA r : r.Constituency = c)
            IN  Unique([i \in 1..Len(of) |-> of[i].Scheme])
        keysOf(c) == [i \in 1..Len(schemesOf(c)) |-> RowKey(c, schemesOf(c)[i])]
    IN  AddLabels(<<>>, Flatten([i \in 1..Len(constituencies) |-> keysOf(constituencies[i])]))

\* The days of a row that get its team, Sundays included.
MarkedDays_WithSundays(row) == to_datetime(row.Start)..to_datetime(row.End)

\* Lines 182-184: the days of a row that get its team.
MarkedDays(row) ==
    { d \in to_datetime(row.Start)..to_datetime(row.End) : weekday(d) # Sunday }

\* Lines 182-185: calendar_matrix.at[label, date] = row["Team"] for one row.
WriteRow(cell, row) ==
    LET label == RowKey(row.Constituency, row.Scheme)
        dates == { strftime(d) : d \in MarkedDays(row) }
    IN  [kc \in DOMAIN cell |->
            IF kc[1] = label /\ kc[2] \in dates THEN row.Team ELSE cell[kc]]

\* Lines 181-185: the rows are written one after another.
RECURSIVE Populate(_, _)
Populate(cell, rows) ==
    IF rows = <<>> THEN cell ELSE Populate(WriteRow(cell, Head(rows)), Tail(rows))

Range(seq) == { seq[i] : i \in 1..Len(seq) }

\* Lines 170-187.
BuildCalendarMatrix(df) ==
    LET cols      == DateColumns(IsoMin({ df[i].Start : i \in 1..Len(df) }),
                                 IsoMax({ df[i].End : i \in 1..Len(df) }))
        matrix_df == SortByStart(df)
        index     == MatrixLabels(matrix_df)
        empty     == [kc \in Range(index) \X Range(cols) |-> ""]
    IN  [columns |-> cols, index |-> index, cell |-> Populate(empty, matrix_df)]

-----------------------------------------------------------------------------
(* The rest of tab 1                                                       *)

\* Rows of the "Data" sheet: one number among empty cells for Scheme1, and
\* a number in every stay column for Scheme2.
SheetRows ==
    { [SchemeName |-> "Scheme1",
       Stays |-> [c \in StayCols |-> IF c = "NORMAL STAY" THEN Number(1) ELSE Text("")]],
      [SchemeName |-> "Scheme2", Stays |-> [c \in StayCols |-> Number(2)]] }

MaxSheetRows == 2

\* Schemes chosen in the weekly planner, and tasks chosen for one scheme.
MaxSchemes == 2

MaxTasks == 2

Sheets == UNION { [1..n -> SheetRows] : n \in 1..MaxSheetRows }

\* Lines 164-188: append_stay_totals on what load_data_sheet returns now
\* (dropna(how="all") drops nothing: get_all_records has no NaN cells), the
\* two date columns formatted, and the calendar matrix built from the result.
RenderTab1 ==
    /\ pc = "scheduled"
    /\ \E rows \in Sheets :
          /\ sheet' = rows
          /\ full_df' = append_stay_totals(output_df, rows)
    /\ calendar_matrix' = BuildCalendarMatrix(full_df')
    /\ pc' = "rendered"
    /\ UNCHANGED <<weekly, inputs, run, sorted_data, idx, team_tracker, schedule_rows,
                   output_df, prev_output, call>>

\* Uploads for the views: rows that differ in team, constituency and scheme,
\* booked for seven days or for three from a Saturday.
ViewCells == { <<"Not Done", NaN>>, <<"On Hold", Some(3)>> }

InitView ==
    /\ columns = AllColumns
    /\ data \in Tables({ Row(t, c, s, cell, AllColumns) :
                            t \in Teams, c \in Constituencies, s \in Schemes,
                            cell \in ViewCells })
    /\ start_date = 5
    /\ status_durations \in StatusDurationConfigs
    /\ priority_order = NaturalOrder
    /\ pc = "start"
    /\ Idle

NextView == SortData \/ BookItem \/ ReturnSchedule \/ RenderTab1

SpecView == InitView /\ [][NextView]_vars

\* Uploads for a repeated run: one constituency, every duration cell and
\* every start date.
InitRerun ==
    /\ columns = AllColumns
    /\ data \in Tables({ Row(t, "CatX", s, cell, AllColumns) :
                            t \in Teams, s \in Schemes, cell \in StatusDurationCells })
    /\ start_date \in StartDates
    /\ status_durations \in StatusDurationConfigs
    /\ priority_order = NaturalOrder
    /\ pc = "start"
    /\ Idle

NextRerun == SortData \/ BookItem \/ ReturnSchedule \/ Rerun

SpecRerun == InitRerun /\ [][NextRerun]_vars

Next == SortData \/ BookItem \/ ReturnSchedule

Spec == Init /\ [][Next]_vars

-----------------------------------------------------------------------------
(* Tab 2: the weekly planner                                               *)

\* Lines 202-207: the tasks and their durations in days.
TASKS ==
    ("Stay and Strut Hole Digging" :> 2) @@
    ("Stay and Strut Installation" :> 1) @@
    ("Pole Dressing and Conductor Stringing" :> 2) @@
    ("PME Installation" :> 1)

\* What st.multiselect can return for a scheme: tasks without repetition, in
\* the order they were picked.
TaskLists ==
    UNION { { t \in [1..n -> DOMAIN TASKS] : \A i, j \in 1..n : t[i] = t[j] => i = j } :
            n \in 0..MaxTasks }

\* What st.date_input returns for a scheme: a Friday, a Saturday or a Sunday.
WeeklyStarts == {4, 5, 6}

\* Line 213: weekly_df["Scheme Name"].dropna().unique().tolist()
scheme_names == Unique([i \in 1..Len(data) |-> data[i].Scheme])

\* Line 225: the team options of the select box.
team_options == { data[i].Team : i \in 1..Len(data) }

\* What the scheme multiselect can return: schemes without repetition.
Selections ==
    UNION { { c \in [1..n -> Range(scheme_names)] : \A i, j \in 1..n : c[i] = c[j] => i = j } :
            n \in 1..MaxSchemes }

\* Lines 233-234 and 251-252: while current_start.weekday() == 6: += 1 day.
RECURSIVE SkipSundays(_)
SkipSundays(current_start) ==
    IF weekday(current_start) = Sunday THEN SkipSundays(current_start + 1)
    ELSE current_start

\* Lines 237-241: the loop that finds a task's end date.
RECURSIVE TaskEndLoop(_, _, _)
TaskEndLoop(end, days_counted, duration) ==
    IF days_counted < duration
    THEN LET counted == IF weekday(end) # Sunday THEN days_counted + 1 ELSE days_counted
         IN  TaskEndLoop(IF counted < duration THEN end + 1 ELSE end, counted, duration)
    ELSE end

\* A first start taken from the day after the last task assigned so far.
CurrentStart_CarriedOver(start, assigned) ==
    IF assigned = <<>> THEN start ELSE assigned[Len(assigned)].End + 1

\* Line 230: current_start = pd.to_datetime(start_date), the scheme's own
\* date widget, whatever has been assigned so far.
CurrentStart(start, assigned) == start

\* The next task starting on the day the previous one ends.
NextStart_SameDay(end) == SkipSundays(end)

\* Lines 250-252: where the next task of the scheme starts.
NextStart(end) == SkipSundays(end + 1)

\* Lines 231-252: the rows appended for the tasks of one scheme.
RECURSIVE PlanTasks(_, _, _, _)
PlanTasks(scheme, tasks, team, current_start) ==
    IF tasks = <<>> THEN <<>>
    ELSE LET duration == TASKS[Head(tasks)]
             start    == SkipSundays(current_start)
             end      == TaskEndLoop(start, 0, duration)
         IN  << [Scheme |-> scheme, Task |-> Head(tasks), Team |-> team,
                 Start |-> start, Duration |-> duration, End |-> end] >>
             \o PlanTasks(scheme, Tail(tasks), team, NextStart(end))

\* Line 257: the left merge with the Scheme Name and Constituency columns of
\* the uploaded table, one row for every uploaded row of the scheme.
MergeConstituency(task_df, weekly_df) ==
    Flatten([ i \in 1..Len(task_df) |->
                LET matches == SelectSeq(weekly_df, LAMBDA r : r.Scheme = task_df[i].Scheme)
                IN  [ j \in 1..Len(matches) |->
                        [Scheme |-> task_df[i].Scheme, Task |-> task_df[i].Task,
                         Team |-> task_df[i].Team, Start |-> task_df[i].Start,
                         Duration |-> task_df[i].Duration, End |-> task_df[i].End,
                         Constituency |-> matches[j].Constituency] ] ])

MaxOf(S) == CHOOSE x \in S : \A y \in S : y <= x

MinOf(S) == CHOOSE x \in S : \A y \in S : x <= y

\* Line 258: the latest End Date of every constituency.
last_days(merged) ==
    LET keys == SelectSeq(Lexicon, LAMBDA c : \E i \in 1..Len(merged) : merged[i].Constituency = c)
    IN  [ k \in 1..Len(keys) |->
            [Constituency |-> keys[k],
             Shutdown |-> MaxOf({ merged[i].End : i \in { j \in 1..Len(merged) :
                                                             merged[j].Constituency = keys[k] } })] ]

\* Line 259: the left merge with last_days on Constituency.
MergeShutdown(merged, days) ==
    Flatten([ i \in 1..Len(merged) |->
                LET matches == SelectSeq(days, LAMBDA r : r.Constituency = merged[i].Constituency)
                IN  [ j \in 1..Len(matches) |->
                        [Scheme |-> merged[i].Scheme, Task |-> merged[i].Task,
                         Team |-> merged[i].Team, Start |-> merged[i].Start,
                         Duration |-> merged[i].Duration, End |-> merged[i].End,
                         Constituency |-> merged[i].Constituency,
                         Shutdown |-> matches[j].Shutdown] ] ])

\* Line 265: f"{row['Scheme Name']} - {row['Task']}"
TaskKey(row) == row.Scheme \o " - " \o row.Task

\* A pandas Timestamp, and line 266: shutdown_date = "".
Timestamp(d) == [date |-> d]

shutdown_date == [text |-> ""]

\* Lines 269-274: the cells written for one row: Duration calendar days from
\* the Start Date on; a day equal to shutdown_date gets "SHUTDOWN", any other
\* day that is not a Sunday gets the team.
FillRow(cell, row) ==
    LET key     == TaskKey(row)
        visited == { row.Start + k : k \in 0..(row.Duration - 1) }
        written == { d \in visited : Timestamp(d) = shutdown_date \/ weekday(d) # Sunday }
    IN  [ kc \in DOMAIN cell |->
            IF kc[1] = key /\ \E d \in written : kc[2] = strftime(d)
            THEN IF Timestamp(to_datetime(kc[2])) = shutdown_date THEN "SHUTDOWN" ELSE row.Team
            ELSE cell[kc] ]

\* Lines 267-274: the rows are written one after another.
RECURSIVE FillRows(_, _)
FillRows(cell, rows) ==
    IF rows = <<>> THEN cell ELSE FillRows(FillRow(cell, Head(rows)), Tail(rows))

\* Lines 262-274: the weekly calendar, a column for every date from the
\* earliest Start Date to the latest End Date of task_df and a row for every
\* scheme and task.
BuildWeeklyCalendar(task_df, merged) ==
    LET lo    == MinOf({ task_df[i].Start : i \in 1..Len(task_df) })
        hi    == MaxOf({ task_df[i].End : i \in 1..Len(task_df) })
        cols  == [i \in 1..(hi - lo + 1) |-> strftime(lo + i - 1)]
        index == AddLabels(<<>>, [i \in 1..Len(merged) |-> TaskKey(merged[i])])
        empty == [kc \in Range(index) \X Range(cols) |-> ""]
    IN  [columns |-> cols, index |-> index, cell |-> FillRows(empty, merged)]

\* Line 214: the schemes are chosen; nothing is planned for an empty choice.
SelectSchemes ==
    /\ pc = "tab2"
    /\ selected_schemes = <<>>
    /\ \E chosen \in Selections : selected_schemes' = chosen
    /\ UNCHANGED <<inputs, pc, run, sorted_data, idx, team_tracker, schedule_rows, output_df,
                   prev_output, full_df, sheet, calendar_matrix, call,
                   widget_values, assigned_tasks, merged_df, calendar>>

\* Lines 219-252: one pass of the loop over the selected schemes: the
\* scheme's widgets are read and its tasks are appended.
PlanScheme ==
    /\ pc = "tab2"
    /\ Len(widget_values) < Len(selected_schemes)
    /\ \E selected_tasks \in TaskLists, assigned_team \in team_options, start \in WeeklyStarts :
          LET scheme == selected_schemes[Len(widget_values) + 1]
          IN  /\ widget_values' = Append(widget_values,
                      [scheme |-> scheme, selected_tasks |-> selected_tasks,
                       assigned_team |-> assigned_team, start_date |-> start])
              /\ assigned_tasks' = assigned_tasks \o
                      PlanTasks(scheme, selected_tasks, assigned_team,
                                CurrentStart(start, assigned_tasks))
    /\ UNCHANGED <<inputs, pc, run, sorted_data, idx, team_tracker, schedule_rows, output_df,
                   prev_output, full_df, sheet, calendar_matrix, call,
                   selected_schemes, merged_df, calendar>>

\* Lines 254-274: the task table, the two merges and the calendar. Without
\* any task the table has no columns and the first merge raises KeyError.
RenderWeekly ==
    /\ pc = "tab2"
    /\ selected_schemes # <<>>
    /\ Len(widget_values) = Len(selected_schemes)
    /\ IF assigned_tasks = <<>>
       THEN /\ pc' = "error"
            /\ UNCHANGED <<merged_df, calendar>>
       ELSE LET first == MergeConstituency(assigned_tasks, data)
                merged == MergeShutdown(first, last_days(first))
            IN  /\ merged_df' = merged
                /\ calendar' = BuildWeeklyCalendar(assigned_tasks, merged)
                /\ pc' = "planned"
    /\ UNCHANGED <<inputs, run, sorted_data, idx, team_tracker, schedule_rows, output_df,
                   prev_output, full_df, sheet, calendar_matrix, call,
                   selected_schemes, widget_values, assigned_tasks>>

\* Uploads for the planner: two schemes of one team, in the same or in
\* different constituencies, and one scheme listed twice, for two teams.
WeeklyTables ==
    { << Row("Team -1", c1, "Scheme1", <<"Not Done", NaN>>, AllColumns),
         Row("Team -1", c2, "Scheme2", <<"Not Done", NaN>>, AllColumns) >> :
      c1 \in Constituencies, c2 \in Constituencies }
    \cup
    { << Row("Team -1", "CatX", "Scheme1", <<"Not Done", NaN>>, AllColumns),
         Row("Team -2", c2, "Scheme1", <<"Not Done", NaN>>, AllColumns) >> :
      c2 \in Constituencies }

InitWeekly ==
    /\ columns = AllColumns
    /\ data \in WeeklyTables
    /\ start_date = 0
    /\ status_durations \in StatusDurationConfigs
    /\ priority_order = NaturalOrder
    /\ pc = "tab2"
    /\ Idle

NextWeekly == SelectSchemes \/ PlanScheme \/ RenderWeekly

SpecWeekly == InitWeekly /\ [][NextWeekly]_vars

-----------------------------------------------------------------------------
(* Properties of generate_work_schedule                                    *)

Rows == 1..Len(schedule_rows)

WorkingDays(from, to) == { d \in from..to : weekday(d) # Sunday }

\* The first working day strictly after d.
FirstWorkdayAfter(d) ==
    CHOOSE x \in (d + 1)..(d + 2) :
        weekday(x) # Sunday /\ \A y \in (d + 1)..(x - 1) : weekday(y) = Sunday

\* The rows emitted before row i for the same team.
EarlierOfTeam(i) == { j \in 1..(i - 1) : schedule_rows[j].Team = schedule_rows[i].Team }

LastOf(S) == CHOOSE j \in S : \A k \in S : k <= j

\* C1: the rows of one team never overlap and are contiguous in booking
\* order: a team's first row starts at next_workday(start_date - 1, 1), every
\* later one at next_workday(End of the team's previous row, 1), which is the
\* first working day strictly after that end.
C1_TeamRowsContiguous ==
    \A i \in Rows :
        LET cursor == IF EarlierOfTeam(i) = {} THEN start_date - 1
                      ELSE schedule_rows[LastOf(EarlierOfTeam(i))].End
        IN  /\ schedule_rows[i].Start = next_workday(cursor, 1)
            /\ schedule_rows[i].Start = FirstWorkdayAfter(cursor)
            /\ \A j \in EarlierOfTeam(i) :
                   (schedule_rows[j].Start..schedule_rows[j].End)
                       \cap (schedule_rows[i].Start..schedule_rows[i].End) = {}

\* A team's second row follows a first row of several days that ends on a
\* Saturday: the Sunday between them is skipped.
C1_Witness ==
    \E i \in Rows : \E j \in EarlierOfTeam(i) :
        /\ schedule_rows[j].End > schedule_rows[j].Start
        /\ weekday(schedule_rows[j].End) = 5
        /\ schedule_rows[i].Start = schedule_rows[j].End + 2

\* C2: the number of working days in workdays_only(Start, End) of every
\* emitted row equals the row's recorded Duration (Days), whichever source
\* the duration came from.
C2_WorkdaysEqualDuration ==
    \A i \in Rows :
        Len(workdays_only(schedule_rows[i].Start, schedule_rows[i].End))
            = schedule_rows[i].Duration

\* The scenario of C3: Scheme1 (Not Done) and Scheme2 (Complete) of one team
\* and one constituency, in this file order, a Monday start, durations
\* Not Done 7 and Complete 1, both priority lists in ascending order.
Ascending(list) == \A i \in 1..(Len(list) - 1) : StrRank(list[i]) < StrRank(list[i + 1])

C3_Scenario ==
    /\ Len(data) = 2
    /\ data[1].Team = data[2].Team
    /\ data[1].Constituency = "CatX" /\ data[2].Constituency = "CatX"
    /\ data[1].Scheme = "Scheme1" /\ data[1].Status = "Not Done"
    /\ data[2].Scheme = "Scheme2" /\ data[2].Status = "Complete"
    /\ start_date = 0
    /\ status_durations["Not Done"] = 7 /\ status_durations["Complete"] = 1
    /\ Ascending(priority_order.Constituency) /\ Ascending(priority_order.Status)
    /\ \A i \in 1..2 :
          /\ \E k \in 1..Len(priority_order.Constituency) :
                 priority_order.Constituency[k] = data[i].Constituency
          /\ \E k \in 1..Len(priority_order.Status) :
                 priority_order.Status[k] = data[i].Status

Dates(rows, scheme) ==
    { <<rows[i].Start, rows[i].End>> : i \in { k \in 1..Len(rows) : rows[k].Scheme = scheme } }

\* C3 as stated: Scheme1 is booked Jan 2 - Jan 9 (days 1 to 8) and Scheme2 on
\* Jan 10 (day 9).
C3_AsStated ==
    (C3_Scenario /\ pc = "scheduled")
        => /\ Dates(output_df, "Scheme1") = { <<1, 8>> }
           /\ Dates(output_df, "Scheme2") = { <<9, 9>> }

\* C3, amended: Scheme2 is booked first, on Monday Jan 1 (day 0), because
\* Complete precedes Not Done in ascending order; Scheme1 follows from Jan 2
\* to Jan 9 (days 1 to 8), seven working days around Sunday Jan 7.
C3_ScenarioDates ==
    (C3_Scenario /\ pc = "scheduled")
        => /\ Len(output_df) = 2
           /\ output_df[1].Scheme = "Scheme2"
           /\ output_df[1].Start = 0 /\ output_df[1].End = 0
           /\ output_df[2].Scheme = "Scheme1"
           /\ output_df[2].Start = 1 /\ output_df[2].End = 8
           /\ weekday(6) = Sunday
           /\ Cardinality(WorkingDays(1, 8)) = 7

C3_Witness == C3_Scenario /\ pc = "scheduled" /\ run = 1

\* The sort key of C4, from the configured lists.
ListedAt(list, x) == { k \in 1..Len(list) : list[k] = x }

CategoryRank(row) ==
    IF ListedAt(priority_order.Constituency, row.Constituency) = {}
    THEN Len(priority_order.Constituency)
    ELSE (CHOOSE k \in ListedAt(priority_order.Constituency, row.Constituency) : TRUE) - 1

StatusRank(row) ==
    IF ListedAt(priority_order.Status, row.Status) = {}
    THEN Len(priority_order.Status)
    ELSE (CHOOSE k \in ListedAt(priority_order.Status, row.Status) : TRUE) - 1

\* Row a is emitted no later than row b under (Team, CategoryRank, StatusRank, Name).
KeyOrdered(a, b) ==
    IF a.Team # b.Team THEN StrRank(a.Team) < StrRank(b.Team)
    ELSE IF CategoryRank(a) # CategoryRank(b) THEN CategoryRank(a) < CategoryRank(b)
    ELSE IF StatusRank(a) # StatusRank(b) THEN StatusRank(a) < StatusRank(b)
    ELSE StrRank(a.Scheme) <= StrRank(b.Scheme)

\* C4: rows are processed and emitted in ascending order of (Team,
\* CategoryRank, StatusRank, Scheme Name); a team's rows are consecutive, and
\* a row with an unlisted constituency comes after every row of its team
\* with a listed one.
C4_EmittedInKeyOrder ==
    /\ pc \in {"loop", "scheduled"} =>
          /\ Len(sorted_data) = Len(data)
          /\ \A i, j \in 1..Len(sorted_data) :
                 i < j => KeyOrdered(sorted_data[i], sorted_data[j])
    /\ \A i, j \in Rows :
          i < j =>
             /\ KeyOrdered(schedule_rows[i], schedule_rows[j])
             /\ schedule_rows[i].Team = schedule_rows[j].Team =>
                   /\ \A k \in i..j : schedule_rows[k].Team = schedule_rows[i].Team
                   /\ ListedAt(priority_order.Constituency, schedule_rows[i].Constituency) = {}
                         => ListedAt(priority_order.Constituency, schedule_rows[j].Constituency) = {}

\* Two rows of one team were emitted against their file order: the first has
\* the listed constituency but the later status rank and the later name, the
\* second an unlisted constituency.
C4_Witness ==
    /\ Len(schedule_rows) = 2
    /\ schedule_rows[1].Team = schedule_rows[2].Team
    /\ ListedAt(priority_order.Constituency, schedule_rows[1].Constituency) # {}
    /\ ListedAt(priority_order.Constituency, schedule_rows[2].Constituency) = {}
    /\ StatusRank(schedule_rows[1]) > StatusRank(schedule_rows[2])
    /\ StrRank(schedule_rows[1].Scheme) > StrRank(schedule_rows[2].Scheme)
    /\ data[1].Scheme = schedule_rows[2].Scheme
    /\ data[2].Scheme = schedule_rows[1].Scheme

MappedStatuses == {"Not Done", "Pending", "In Progress", "Complete"}

\* C5: the duration of a row is status_durations[Status] when the Status is a
\* key of status_durations, else the row's Duration (Days) when that field
\* is present and not missing, else 2; a mapped status wins over an explicit
\* duration.
C5_DurationSource ==
    \A i \in Rows :
        LET item == sorted_data[i]
            used == schedule_rows[i].Duration
        IN  /\ item.Status \in MappedStatuses => used = status_durations[item.Status]
            /\ (item.Status \notin MappedStatuses /\ "Duration (Days)" \in columns
                    /\ item.Duration # NaN) => used = item.Duration[1]
            /\ (item.Status \notin MappedStatuses
                    /\ ("Duration (Days)" \notin columns \/ item.Duration = NaN)) => used = 2

\* A row with a mapped status and a different explicit duration was booked
\* with the mapped duration.
C5_Witness ==
    \E i \in Rows :
        /\ sorted_data[i].Status = "Complete"
        /\ sorted_data[i].Duration = Some(3)
        /\ schedule_rows[i].Duration = 1

\* C7: a second run of generate_work_schedule on the same table, start date,
\* durations and priority lists returns the same rows in the same order with
\* the same dates as the first.
C7_RerunIdentical ==
    (run = 2 /\ pc = "scheduled") => output_df = prev_output

\* The second run has returned two rows of one team.
C7_Witness ==
    /\ run = 2 /\ pc = "scheduled"
    /\ Len(output_df) = 2
    /\ output_df[1].Team = output_df[2].Team

-----------------------------------------------------------------------------
(* Properties of next_workday                                              *)

\* C6 as stated: for every date d and every n, next_workday(d, n) is a
\* working day and the interval (d, result] holds n working days.
C6_AsStated ==
    call.fn = "next_workday" =>
        /\ weekday(call.result) # Sunday
        /\ Cardinality(WorkingDays(call.d + 1, call.result)) = call.n

\* C6, amended: for every date d and every n >= 1, next_workday(d, n) is a
\* working day and the interval (d, result] holds n working days.
C6_NextWorkdayCounts ==
    (call.fn = "next_workday" /\ call.n >= 1) =>
        /\ weekday(call.result) # Sunday
        /\ call.result > call.d
        /\ Cardinality(WorkingDays(call.d + 1, call.result)) = call.n

\* A call for several working days whose interval spans a Sunday.
C6_Witness ==
    /\ call.fn = "next_workday"
    /\ call.n >= 2
    /\ \E x \in (call.d + 1)..call.result : weekday(x) = Sunday

-----------------------------------------------------------------------------
(* Properties of the merge and of the calendar matrix                      *)

Merged == pc = "rendered"

SheetNames == { sheet[i].SchemeName : i \in 1..Len(sheet) }

\* C8: a scheduled row whose Scheme Name has no record in the sheet gets 0,
\* not a missing value, in every stay column and in TOTAL STAYS.
C8_UnmatchedZeroFilled ==
    Merged =>
        \A i \in 1..Len(full_df) :
            full_df[i].Scheme \notin SheetNames =>
                /\ \A c \in StayCols : full_df[i].Stays[c] = 0
                /\ full_df[i].Total = Some(0)

\* C9: once the matrix is built, every working day of every scheduled row
\* holds that row's team in the row 'Constituency - Scheme Name'.
C9_EveryItemMarked ==
    pc = "rendered" =>
        \A i \in 1..Len(output_df) :
            \A d \in WorkingDays(output_df[i].Start, output_df[i].End) :
                calendar_matrix.cell[<<RowKey(output_df[i].Constituency, output_df[i].Scheme),
                                       strftime(d)>>] = output_df[i].Team

FirstStart == CHOOSE d \in { output_df[i].Start : i \in 1..Len(output_df) } :
                  \A i \in 1..Len(output_df) : d <= output_df[i].Start

LastEndDate == CHOOSE d \in { output_df[i].End : i \in 1..Len(output_df) } :
                   \A i \in 1..Len(output_df) : output_df[i].End <= d

\* C10: the matrix has one column for every calendar date from the earliest
\* Start Date to the latest End Date, Sundays included; every Sunday column
\* is empty in every row, and every other date of a row's range is filled.
C10_ColumnsAndSundays ==
    pc = "rendered" =>
        /\ Len(calendar_matrix.columns) = LastEndDate - FirstStart + 1
        /\ \A k \in 1..Len(calendar_matrix.columns) :
               calendar_matrix.columns[k] = strftime(FirstStart + k - 1)
        /\ \A label \in Range(calendar_matrix.index) :
               \A d \in FirstStart..LastEndDate :
                   weekday(d) = Sunday => calendar_matrix.cell[<<label, strftime(d)>>] = ""
        /\ \A i \in 1..Len(output_df) :
               \A d \in output_df[i].Start..output_df[i].End :
                   LET v == calendar_matrix.cell[<<RowKey(output_df[i].Constituency,
                                                          output_df[i].Scheme), strftime(d)>>]
                   IN  IF weekday(d) = Sunday THEN v = "" ELSE v \in Teams

\* The matrix of a row of seven working days that spans a Sunday.
C10_Witness ==
    /\ pc = "rendered"
    /\ \E i \in 1..Len(output_df) :
          /\ output_df[i].Duration = 7
          /\ \E d \in output_df[i].Start..output_df[i].End : weekday(d) = Sunday

-----------------------------------------------------------------------------
(* Further properties of generate_work_schedule                            *)

\* C13: a table with Team, Constituency, Scheme Name and Duration (Days) but
\* no Status column is accepted: no error, every row booked with its
\* explicit duration (2 when missing) and emitted with Status "Unknown".
C13_NoStatusAccepted ==
    (AllColumns \ {"Status"} \subseteq columns /\ "Status" \notin columns) =>
        /\ pc # "error"
        /\ \A i \in Rows :
              /\ schedule_rows[i].Status = "Unknown"
              /\ schedule_rows[i].Duration =
                     IF sorted_data[i].Duration = NaN THEN 2 ELSE sorted_data[i].Duration[1]

\* C15: generate_work_schedule leaves the caller's table as it was: the same
\* rows in the same order and the same columns.
C15_InputUnchanged == [][data' = data /\ columns' = columns]_vars

\* The call has returned rows in another order than the file's, and the
\* table is still in file order without a _priority column.
C15_Witness ==
    /\ pc = "scheduled"
    /\ Len(data) = 2
    /\ sorted_data = <<data[2], data[1]>>
    /\ data[1] # data[2]
    /\ columns = AllColumns

\* C16: on a table that lacks Team, Constituency or Scheme Name the call
\* fails before anything is booked: no row is emitted, no cursor is created
\* and nothing is returned.
C16_MissingColumnFailsFirst ==
    ~(RequiredColumns \subseteq columns) =>
        /\ pc \in {"start", "error"}
        /\ schedule_rows = <<>>
        /\ team_tracker = <<>>
        /\ output_df = <<>>

\* The call has failed on a table without one of the three columns.
C16_Witness == pc = "error" /\ ~(RequiredColumns \subseteq columns) /\ "Status" \in columns

TeamEnds(t) == { schedule_rows[i].End : i \in { k \in Rows : schedule_rows[k].Team = t } }

\* C17: every booking ends strictly after the cursor it read, for every
\* duration, zero and negative ones included; after each booking the cursor
\* of a team is the latest End booked for it; a team's rows are in strictly
\* increasing Start order.
C17_CursorIncreases ==
    /\ DOMAIN team_tracker = { schedule_rows[i].Team : i \in Rows }
    /\ \A t \in DOMAIN team_tracker :
          /\ team_tracker[t] \in TeamEnds(t)
          /\ \A e \in TeamEnds(t) : e <= team_tracker[t]
    /\ \A i \in Rows :
          LET read == IF EarlierOfTeam(i) = {} THEN start_date - 1
                      ELSE schedule_rows[LastOf(EarlierOfTeam(i))].End
          IN  /\ schedule_rows[i].End > read
              /\ \A j \in EarlierOfTeam(i) :
                     /\ schedule_rows[j].Start < schedule_rows[i].Start
                     /\ schedule_rows[j].End < schedule_rows[i].End

\* A team's second booking has a negative duration and follows a booking of
\* duration zero.
C17_Witness ==
    \E i \in Rows : \E j \in EarlierOfTeam(i) :
        /\ schedule_rows[j].Duration = 0
        /\ schedule_rows[i].Duration < 0
        /\ team_tracker[schedule_rows[i].Team] = schedule_rows[i].End

\* C18: Start <= End, and neither Start nor End is a Sunday, for every start
\* date, a Sunday included, and every duration.
C18_StartEndWorkdays ==
    \A i \in Rows :
        /\ schedule_rows[i].Start <= schedule_rows[i].End
        /\ weekday(schedule_rows[i].Start) # Sunday
        /\ weekday(schedule_rows[i].End) # Sunday

\* From a Sunday start date, a row of seven days that spans the next Sunday.
C18_Witness ==
    /\ weekday(start_date) = Sunday
    /\ \E i \in Rows :
          /\ schedule_rows[i].Start = start_date + 1
          /\ schedule_rows[i].Duration = 7
          /\ schedule_rows[i].End = start_date + 8

\* The bijections between the positions of two tables that pair equal rows.
Pairings(a, b) ==
    { p \in [1..Len(a) -> 1..Len(b)] :
        /\ \A i, j \in 1..Len(a) : p[i] = p[j] => i = j
        /\ \A i \in 1..Len(a) : a[i] = b[p[i]] }

\* C14: the enriched schedule has exactly one row per uploaded row, in the
\* order the rows were processed: the rows processed are the uploaded rows
\* rearranged, and the merge adds and removes none, whatever the sheet holds.
C14_OneRowPerItem ==
    Merged =>
        /\ Len(sorted_data) = Len(data)
        /\ Pairings(sorted_data, data) # {}
        /\ Len(full_df) = Len(sorted_data)
        /\ \A i \in 1..Len(full_df) :
              /\ full_df[i].Team = sorted_data[i].Team
              /\ full_df[i].Constituency = sorted_data[i].Constituency
              /\ full_df[i].Scheme = sorted_data[i].Scheme
              /\ full_df[i].Status = sorted_data[i].Status

\* Two uploaded rows processed in another order than the file's, merged with
\* a sheet that has two rows of one scheme name, which the schedule has too.
C14_Witness ==
    /\ Merged
    /\ Len(data) = 2
    /\ sorted_data # data
    /\ Len(sheet) = 2
    /\ sheet[1].SchemeName = sheet[2].SchemeName
    /\ \E i \in 1..Len(full_df) : full_df[i].Scheme = sheet[1].SchemeName

-----------------------------------------------------------------------------
(* Properties of the weekly planner                                        *)

Planned == pc = "planned"

\* The rows assigned for the k-th scheme of the selection.
SchemeRows(k) ==
    SelectSeq(assigned_tasks, LAMBDA r : r.Scheme = widget_values[k].scheme)

\* The first working day on or after d.
FirstWorkdayFrom(d) ==
    CHOOSE x \in d..(d + 1) :
        weekday(x) # Sunday /\ \A y \in d..(x - 1) : weekday(y) = Sunday

\* C11: once the weekly matrix is built, every cell of a task row whose date
\* is the Shutdown Date of the task's constituency holds "SHUTDOWN".
C11_ShutdownMarked ==
    Planned =>
        \A i \in 1..Len(merged_df) :
            \A d \in merged_df[i].Start..merged_df[i].End :
                d = merged_df[i].Shutdown =>
                    calendar.cell[<<TaskKey(merged_df[i]), strftime(d)>>] = "SHUTDOWN"

\* C12: the tasks of a scheme are assigned in the order they were picked;
\* the first starts on the first working day on or after the scheme's start
\* date, every later one on the first working day after the previous End
\* Date; no task starts on a Sunday and consecutive tasks do not overlap.
C12_TasksChained ==
    \A k \in 1..Len(widget_values) :
        LET picked == widget_values[k].selected_tasks
            rows   == SchemeRows(k)
        IN  /\ Len(rows) = Len(picked)
            /\ \A i \in 1..Len(rows) :
                  /\ rows[i].Task = picked[i]
                  /\ weekday(rows[i].Start) # Sunday
                  /\ i = 1 => rows[i].Start = FirstWorkdayFrom(widget_values[k].start_date)
                  /\ i > 1 => /\ rows[i].Start = FirstWorkdayAfter(rows[i - 1].End)
                              /\ rows[i - 1].End < rows[i].Start

\* A scheme planned from a Saturday, PME Installation picked before the hole
\* digging: the first task ends that Saturday, the second starts on Monday.
C12_Witness ==
    /\ Planned
    /\ \E k \in 1..Len(widget_values) :
          /\ widget_values[k].selected_tasks =
                 <<"PME Installation", "Stay and Strut Hole Digging">>
          /\ weekday(widget_values[k].start_date) = 5
          /\ SchemeRows(k)[1].End = widget_values[k].start_date
          /\ SchemeRows(k)[2].Start = widget_values[k].start_date + 2

\* The dates of the columns of the weekly matrix.
CalendarDays == { to_datetime(calendar.columns[i]) : i \in 1..Len(calendar.columns) }

\* C19: once the weekly matrix is built, every working day from a task's
\* Start Date to its End Date is filled in the task's row, so the row has as
\* many filled cells as the task has days and the End Date cell is filled.
C19_RangePopulated ==
    Planned =>
        \A i \in 1..Len(assigned_tasks) :
            LET row    == assigned_tasks[i]
                filled == { d \in CalendarDays :
                              calendar.cell[<<TaskKey(row), strftime(d)>>] # "" }
            IN  /\ WorkingDays(row.Start, row.End) \subseteq filled
                /\ Cardinality(filled) = row.Duration
                /\ row.End \in filled

\* The Start and End dates assigned for the k-th scheme, in order.
DatesOf(k) == [i \in 1..Len(SchemeRows(k)) |-> <<SchemeRows(k)[i].Start, SchemeRows(k)[i].End>>]

\* C20: the dates of a scheme's tasks are determined by the scheme's own
\* start date and task list: its first task starts on the first working day
\* on or after its own start date, and two schemes with the same start date
\* and the same tasks get the same dates, whatever their teams and whatever
\* was assigned before them.
C20_SchemesIndependent ==
    /\ \A k \in 1..Len(widget_values) :
          SchemeRows(k) # <<>> =>
              SchemeRows(k)[1].Start = FirstWorkdayFrom(widget_values[k].start_date)
    /\ \A a, b \in 1..Len(widget_values) :
          (/\ widget_values[a].start_date = widget_values[b].start_date
           /\ widget_values[a].selected_tasks = widget_values[b].selected_tasks)
              => DatesOf(a) = DatesOf(b)

\* Two schemes of one team, planned from a Saturday and from the Sunday
\* after it, with tasks on the same Monday.
C20_Witness ==
    /\ Planned
    /\ Len(widget_values) = 2
    /\ widget_values[1].assigned_team = widget_values[2].assigned_team
    /\ widget_values[1].start_date = 5
    /\ widget_values[2].start_date = 6
    /\ \E i \in 1..Len(SchemeRows(1)), j \in 1..Len(SchemeRows(2)) :
          /\ SchemeRows(1)[i].Start <= SchemeRows(2)[j].End
          /\ SchemeRows(2)[j].Start <= SchemeRows(1)[i].End

====
